---- MODULE Spec2Model ----
(***************************************************************************)
(* A model of the library catalogue of typescript-library-management:      *)
(* the singleton LibraryCatalogue (models/LibraryCatalogue.ts), the        *)
(* LibraryItem variants it stores, and the JavaScript array operations it  *)
(* is built on; the item objects with their setters; the validating User;  *)
(* the earlier LibraryCatalogue class with a public constructor.           *)
(*                                                                         *)
(* Strings that the code transforms (titles, through toLowerCase) are      *)
(* sequences of character codes; strings that are only compared (class     *)
(* names, type tags) are TLA+ strings.  Arrays live in a heap of array     *)
(* objects so that aliasing of a returned array is expressible; array      *)
(* indices are 0-based as in JavaScript and -1 is "not found".  Console    *)
(* output is not modelled, nor the removed item that removeItem only logs; *)
(* of the messages of borrowBook and returnBook only which one was logged  *)
(* is recorded (ret.log).                                                  *)
(***************************************************************************)
EXTENDS Integers, Sequences, FiniteSets, TLC

VARIABLES
    instance,   \* LibraryCatalogue.instance: 0 (undefined) or a catalogue ref
    cats,       \* heap of LibraryCatalogue objects: cats[k] is the array ref
                \* held in the k-th object's libraryItems field
    arrays,     \* heap of array objects: arrays[r] is the content of array r
    allocated,  \* the array refs that are live
    refs,       \* the callers' local variables (catalogue, catalogue2): 0 or a catalogue ref
    held,       \* the array ref the caller got from the last getAllItems(), 0 if none
    ret,        \* the last call: its name, receiver, argument and return value
    nAdd,       \* number of addItem calls made so far
    nRemoved,   \* number of removeItem calls that returned true so far
    lastWriter, \* the caller variable through which the last addItem/removeItem was made, 0 if none
    nMutations, \* number of mutations the caller made to a returned array
    objs,       \* heap of item objects that setters are applied to: objs[o] is the fields of object o
    born,       \* for each item object, the class and the arguments it was constructed with
    user,       \* the User object (models/User.ts with validation), undefined before construction
    outstanding, \* the titles the user borrowed and has not returned since (history)
    basics      \* heap of the objects of the earlier LibraryCatalogue class: basics[k] is the
                \* array ref in the k-th object's libraryItems field

catalogueVars == <<instance, cats, refs, nAdd, nRemoved, lastWriter>>
heapVars == <<arrays, allocated, held, nMutations>>
itemVars == <<objs, born>>
userVars == <<user, outstanding>>
basicVars == <<basics>>

vars == <<instance, cats, arrays, allocated, refs, held, ret, nAdd, nRemoved, lastWriter, nMutations,
          objs, born, user, outstanding, basics>>

-----------------------------------------------------------------------------
(* Bounds *)

MaxAdds == 3
MaxArrays == 3
MaxMutations == 2
MaxObjects == 1
\* objects of the earlier LibraryCatalogue class constructed
MaxCatalogues == 1

-----------------------------------------------------------------------------
(* Input domains *)

\* titles as character codes: "Du", "du"
Titles == { <<68, 117>>, <<100, 117>> }
\* titles asked for: the above and "DU", "D" (a prefix), "u" (a substring)
QueryTitles == Titles \cup { <<68, 85>>, <<68>>, <<117>> }
Ids == {1, 2}
\* ids asked for: 3 is never the id of an item
QueryIds == {1, 2, 3}
QueryTypes == {"Book", "AudioBook", "book", "Magazine"}
\* the local variables that hold the result of getInstance(): catalogue, catalogue2
Catalogue == 1
Catalogue2 == 2
Callers == {Catalogue, Catalogue2}
ArrRefs == 1..MaxArrays

-----------------------------------------------------------------------------
(* Strings *)

\* String.prototype.toLowerCase on ASCII character codes
toLowerCase(s) == [i \in 1..Len(s) |-> IF s[i] \in 65..90 THEN s[i] + 32 ELSE s[i]]

\* the value of an absent result
undefined == [undefined |-> TRUE]

\* the white space String.prototype.trim removes (ASCII): tab, LF, VT, FF, CR, space
isWhitespace(ch) == ch \in {9, 10, 11, 12, 13, 32}

RECURSIVE trimStart(_)
trimStart(s) == IF s # <<>> /\ isWhitespace(Head(s)) THEN trimStart(Tail(s)) ELSE s

RECURSIVE trimEnd(_)
trimEnd(s) == IF s # <<>> /\ isWhitespace(s[Len(s)]) THEN trimEnd(SubSeq(s, 1, Len(s) - 1)) ELSE s

\* String.prototype.trim
trim(s) == trimEnd(trimStart(s))

\* the value of a thrown Error with the given message
Error(message) == [error |-> message]

-----------------------------------------------------------------------------
(* Items *)

\* new Book(id, title, author, ISBN)
Book(id, title, author, ISBN) ==
    [ctor |-> "Book", id |-> id, title |-> title, author |-> author, ISBN |-> ISBN]

\* new AudioBook(id, title, narrator, length)
AudioBook(id, title, narrator, length) ==
    [ctor |-> "AudioBook", id |-> id, title |-> title, narrator |-> narrator, length |-> length]

getId(item) == item.id

getTitle(item) == item.title

\* a variant that names the base class for every item
getItemTypeOfBase(item) == "LibraryItem"

\* this.constructor.name
getItemType(item) == item.ctor

\* "Orwell", "Fitzgerald", "978", "Pike"
Orwell == <<79, 114, 119, 101, 108, 108>>
Fitzgerald == <<70, 105, 116, 122, 103, 101, 114, 97, 108, 100>>
Isbn978 == <<57, 55, 56>>
Pike == <<80, 105, 107, 101>>

\* the items handed to the catalogue
Items == { Book(id, t, Orwell, Isbn978) : id \in Ids, t \in Titles }
         \cup { AudioBook(id, t, Pike, 540) : id \in Ids, t \in Titles }

\* the items used where a caller also mutates a returned array
FewItems == { Book(1, <<68, 117>>, Orwell, Isbn978), AudioBook(2, <<100, 117>>, Pike, 540) }

-----------------------------------------------------------------------------
(* JavaScript arrays: a TLA+ sequence arr holds the element of index i at  *)
(* arr[i + 1].                                                             *)

Min(a, b) == IF a < b THEN a ELSE b
Max(a, b) == IF a > b THEN a ELSE b

\* Array.prototype.push
push(arr, item) == Append(arr, item)

\* the array left by Array.prototype.splice(start, deleteCount)
splice(arr, start, deleteCount) ==
    LET len == Len(arr)
        from == IF start < 0 THEN Max(len + start, 0) ELSE Min(start, len)
        cnt == Min(Max(deleteCount, 0), len - from)
    IN  SubSeq(arr, 1, from) \o SubSeq(arr, from + cnt + 1, len)

\* Array.prototype.includes
includes(arr, x) == \E i \in 1..Len(arr) : arr[i] = x

\* Array.prototype.indexOf
indexOf(arr, x) ==
    IF includes(arr, x) THEN (CHOOSE i \in 1..Len(arr) : arr[i] = x /\ \A j \in 1..(i - 1) : arr[j] # x) - 1
    ELSE -1

\* [...arr]
spread(arr) == [i \in 1..Len(arr) |-> arr[i]]

-----------------------------------------------------------------------------
(* The bodies of the LibraryCatalogue methods, as functions of the content *)
(* of this.libraryItems                                                    *)

\* a variant that rejects an item whose id is already in the catalogue
pushItemUniqueId(libraryItems, item) ==
    IF \E i \in 1..Len(libraryItems) : getId(libraryItems[i]) = getId(item)
    THEN libraryItems
    ELSE push(libraryItems, item)

\* this.libraryItems.push(item)
pushItem(libraryItems, item) == push(libraryItems, item)

\* a variant that scans from the end (findLastIndex)
findLastIndexById(libraryItems, id) ==
    IF \E i \in 1..Len(libraryItems) : getId(libraryItems[i]) = id
    THEN (CHOOSE i \in 1..Len(libraryItems) :
              /\ getId(libraryItems[i]) = id
              /\ \A j \in (i + 1)..Len(libraryItems) : getId(libraryItems[j]) # id) - 1
    ELSE -1

\* this.libraryItems.findIndex(item => item.getId() === id)
findIndexById(libraryItems, id) ==
    IF \E i \in 1..Len(libraryItems) : getId(libraryItems[i]) = id
    THEN (CHOOSE i \in 1..Len(libraryItems) :
              /\ getId(libraryItems[i]) = id
              /\ \A j \in 1..(i - 1) : getId(libraryItems[j]) # id) - 1
    ELSE -1

\* a variant with an off-by-one guard (index >= -1)
indexFoundOffByOne(index) == index >= -1

\* if (index > -1)
indexFound(index) == index > -1

\* a variant that omits the delete count (splice(index) deletes to the end)
spliceToEnd(libraryItems, index) == splice(libraryItems, index, Len(libraryItems))

\* a variant with a 1-based index (splice(index + 1, 1))
spliceOneBased(libraryItems, index) == splice(libraryItems, index + 1, 1)

\* this.libraryItems.splice(index, 1), the array it leaves
spliceOne(libraryItems, index) == splice(libraryItems, index, 1)

\* a variant that compares titles as written
titleMatchesExactCase(item, title) == getTitle(item) = title

\* item.getTitle().toLowerCase() === title.toLowerCase()
titleMatches(item, title) == toLowerCase(getTitle(item)) = toLowerCase(title)

\* this.libraryItems.find(item => item.getTitle().toLowerCase() === title.toLowerCase())
findByTitle(libraryItems, title) ==
    IF \E i \in 1..Len(libraryItems) : titleMatches(libraryItems[i], title)
    THEN libraryItems[CHOOSE i \in 1..Len(libraryItems) :
              /\ titleMatches(libraryItems[i], title)
              /\ \A j \in 1..(i - 1) : ~titleMatches(libraryItems[j], title)]
    ELSE undefined

\* item.getItemType() === itemType
typeMatches(item, itemType) == getItemType(item) = itemType

\* a variant that stops at the first match (find in place of filter)
filterByTypeFirstOnly(libraryItems, itemType) ==
    IF \E i \in 1..Len(libraryItems) : typeMatches(libraryItems[i], itemType)
    THEN << libraryItems[CHOOSE i \in 1..Len(libraryItems) :
                /\ typeMatches(libraryItems[i], itemType)
                /\ \A j \in 1..(i - 1) : ~typeMatches(libraryItems[j], itemType)] >>
    ELSE << >>

\* this.libraryItems.filter(item => item.getItemType() === itemType)
filterByType(libraryItems, itemType) ==
    LET Keep(item) == typeMatches(item, itemType)
    IN  SelectSeq(libraryItems, Keep)

\* a variant that overwrites the count (stats.byType[type] = 1)
tallyOverwrite(byType, type) == (type :> 1) @@ byType

\* stats.byType[type] = (stats.byType[type] || 0) + 1
tally(byType, type) ==
    (type :> ((IF type \in DOMAIN byType THEN byType[type] ELSE 0) + 1)) @@ byType

\* a variant that starts from a table of the known types at zero
RECURSIVE tallyAllPrefilled(_, _)
tallyAllPrefilled(libraryItems, n) ==
    IF n = 0 THEN [t \in {"Book", "AudioBook"} |-> 0]
    ELSE tally(tallyAllPrefilled(libraryItems, n - 1), getItemType(libraryItems[n]))

\* this.libraryItems.forEach(item => { ... }), from the first n items
RECURSIVE tallyAll(_, _)
tallyAll(libraryItems, n) ==
    IF n = 0 THEN [t \in {} |-> 0]
    ELSE tally(tallyAll(libraryItems, n - 1), getItemType(libraryItems[n]))

\* total: this.libraryItems.length
statsTotal(libraryItems) == Len(libraryItems)

\* the object getStatistics() returns
statistics(libraryItems) ==
    [total |-> statsTotal(libraryItems), byType |-> tallyAll(libraryItems, Len(libraryItems))]

-----------------------------------------------------------------------------
(* The heap *)

\* the array refs some catalogue object holds
catalogueArrays == { cats[k] : k \in 1..Len(cats) } \cup { basics[k] : k \in 1..Len(basics) }

\* the elements of the libraryItems array of catalogue object this
elementsOf(this) == arrays[cats[this]]

\* An array element is an item.  An item that no setter is ever applied to
\* is represented by its fields; an item object that setters are applied to
\* lives in objs and is represented by [ref |-> o].
itemAt(element) == IF "ref" \in DOMAIN element THEN objs[element.ref] ELSE element

\* the items in the libraryItems array of catalogue object this
itemsOf(this) == [i \in 1..Len(elementsOf(this)) |-> itemAt(elementsOf(this)[i])]

\* the lowest array ref not in use
freshRef(inUse) == CHOOSE r \in ArrRefs \ inUse : \A q \in ArrRefs \ inUse : r <= q

Init ==
    /\ instance = 0
    /\ cats = <<>>
    /\ arrays = [r \in ArrRefs |-> <<>>]
    /\ allocated = {}
    /\ refs = [c \in Callers |-> 0]
    /\ held = 0
    /\ ret = [op |-> "none", via |-> 0, this |-> 0, arg |-> undefined, val |-> undefined]
    /\ nAdd = 0
    /\ nRemoved = 0
    /\ lastWriter = 0
    /\ nMutations = 0
    /\ objs = <<>>
    /\ born = <<>>
    /\ user = undefined
    /\ outstanding = {}
    /\ basics = <<>>

-----------------------------------------------------------------------------
(* LibraryCatalogue *)

\* private constructor(): this.libraryItems = []
construct ==
    /\ ArrRefs \ allocated # {}
    /\ LET r == freshRef(allocated)
       IN  /\ arrays' = [arrays EXCEPT ![r] = <<>>]
           /\ allocated' = allocated \cup {r}
           /\ cats' = Append(cats, r)
           /\ instance' = Len(cats) + 1

\* a variant that runs the constructor body again on every call
getInstanceEmptied(c) ==
    /\ IF instance = 0
       THEN construct
       ELSE /\ arrays' = [arrays EXCEPT ![cats[instance]] = <<>>]
            /\ UNCHANGED <<instance, cats, allocated>>
    /\ refs' = [refs EXCEPT ![c] = instance']
    /\ ret' = [op |-> "getInstance", via |-> c, this |-> 0, arg |-> undefined, val |-> instance']
    /\ UNCHANGED <<held, nAdd, nRemoved, lastWriter, nMutations,
                   itemVars, userVars, basicVars>>

\* a variant that constructs a catalogue on every call
getInstanceAlwaysNew(c) ==
    /\ construct
    /\ refs' = [refs EXCEPT ![c] = instance']
    /\ ret' = [op |-> "getInstance", via |-> c, this |-> 0, arg |-> undefined, val |-> instance']
    /\ UNCHANGED <<held, nAdd, nRemoved, lastWriter, nMutations,
                   itemVars, userVars, basicVars>>

\* public static getInstance(), its result stored in the caller's variable c
getInstance(c) ==
    /\ IF instance = 0
       THEN construct
       ELSE UNCHANGED <<instance, cats, arrays, allocated>>
    /\ refs' = [refs EXCEPT ![c] = instance']
    /\ ret' = [op |-> "getInstance", via |-> c, this |-> 0, arg |-> undefined, val |-> instance']
    /\ UNCHANGED <<held, nAdd, nRemoved, lastWriter, nMutations,
                   itemVars, userVars, basicVars>>

\* public addItem(item)
addItem(c, item) ==
    /\ refs[c] # 0
    /\ nAdd < MaxAdds
    /\ arrays' = [arrays EXCEPT ![cats[refs[c]]] = pushItem(@, item)]
    /\ nAdd' = nAdd + 1
    /\ lastWriter' = c
    /\ ret' = [op |-> "addItem", via |-> c, this |-> refs[c], arg |-> item, val |-> undefined]
    /\ UNCHANGED <<instance, cats, allocated, refs, held, nRemoved, nMutations,
                   itemVars, userVars, basicVars>>

\* a variant that removes every item of the id (filter instead of splice)
removeItemEvery(c, id) ==
    /\ refs[c] # 0
    /\ LET index == findIndexById(itemsOf(refs[c]), id)
           kept == { i \in 1..Len(elementsOf(refs[c])) : getId(itemsOf(refs[c])[i]) # id }
           rank(i) == Cardinality({ j \in kept : j <= i })
       IN  IF indexFound(index)
           THEN /\ arrays' = [arrays EXCEPT ![cats[refs[c]]] =
                                 [n \in 1..Cardinality(kept) |->
                                     elementsOf(refs[c])[CHOOSE i \in kept : rank(i) = n]]]
                /\ nRemoved' = nRemoved + 1
                /\ lastWriter' = c
                /\ ret' = [op |-> "removeItem", via |-> c, this |-> refs[c], arg |-> id, val |-> TRUE]
           ELSE /\ UNCHANGED <<arrays, nRemoved, lastWriter>>
                /\ ret' = [op |-> "removeItem", via |-> c, this |-> refs[c], arg |-> id, val |-> FALSE]
    /\ UNCHANGED <<instance, cats, allocated, refs, held, nAdd, nMutations,
                   itemVars, userVars, basicVars>>

\* public removeItem(id)
removeItem(c, id) ==
    /\ refs[c] # 0
    /\ LET index == findIndexById(itemsOf(refs[c]), id)
       IN  IF indexFound(index)
           THEN /\ arrays' = [arrays EXCEPT ![cats[refs[c]]] = spliceOne(@, index)]
                /\ nRemoved' = nRemoved + 1
                /\ lastWriter' = c
                /\ ret' = [op |-> "removeItem", via |-> c, this |-> refs[c], arg |-> id, val |-> TRUE]
           ELSE /\ UNCHANGED <<arrays, nRemoved, lastWriter>>
                /\ ret' = [op |-> "removeItem", via |-> c, this |-> refs[c], arg |-> id, val |-> FALSE]
    /\ UNCHANGED <<instance, cats, allocated, refs, held, nAdd, nMutations,
                   itemVars, userVars, basicVars>>

\* public getItemCount()
getItemCount(c) ==
    /\ refs[c] # 0
    /\ ret' = [op |-> "getItemCount", via |-> c, this |-> refs[c], arg |-> undefined,
               val |-> Len(itemsOf(refs[c]))]
    /\ UNCHANGED <<instance, cats, arrays, allocated, refs, held, nAdd, nRemoved, lastWriter, nMutations,
                   itemVars, userVars, basicVars>>

\* public findItemByTitle(title)
findItemByTitle(c, title) ==
    /\ refs[c] # 0
    /\ ret' = [op |-> "findItemByTitle", via |-> c, this |-> refs[c], arg |-> title,
               val |-> findByTitle(itemsOf(refs[c]), title)]
    /\ UNCHANGED <<instance, cats, arrays, allocated, refs, held, nAdd, nRemoved, lastWriter, nMutations,
                   itemVars, userVars, basicVars>>

\* a variant that filters the catalogue's own array (this.libraryItems = filtered)
findItemsByTypeInPlace(c, itemType) ==
    /\ refs[c] # 0
    /\ arrays' = [arrays EXCEPT ![cats[refs[c]]] = filterByType(itemsOf(refs[c]), itemType)]
    /\ ret' = [op |-> "findItemsByType", via |-> c, this |-> refs[c], arg |-> itemType,
               val |-> filterByType(itemsOf(refs[c]), itemType)]
    /\ UNCHANGED <<instance, cats, allocated, refs, held, nAdd, nRemoved, lastWriter, nMutations,
                   itemVars, userVars, basicVars>>

\* public findItemsByType(itemType)
findItemsByType(c, itemType) ==
    /\ refs[c] # 0
    /\ ret' = [op |-> "findItemsByType", via |-> c, this |-> refs[c], arg |-> itemType,
               val |-> filterByType(itemsOf(refs[c]), itemType)]
    /\ UNCHANGED <<instance, cats, arrays, allocated, refs, held, nAdd, nRemoved, lastWriter, nMutations,
                   itemVars, userVars, basicVars>>

\* public getStatistics()
getStatistics(c) ==
    /\ refs[c] # 0
    /\ ret' = [op |-> "getStatistics", via |-> c, this |-> refs[c], arg |-> undefined,
               val |-> statistics(itemsOf(refs[c]))]
    /\ UNCHANGED <<instance, cats, arrays, allocated, refs, held, nAdd, nRemoved, lastWriter, nMutations,
                   itemVars, userVars, basicVars>>

\* a variant that hands out the internal array (return this.libraryItems)
getAllItemsAlias(c) ==
    /\ refs[c] # 0
    /\ held' = cats[refs[c]]
    /\ ret' = [op |-> "getAllItems", via |-> c, this |-> refs[c], arg |-> undefined,
               val |-> elementsOf(refs[c])]
    /\ UNCHANGED <<instance, cats, arrays, allocated, refs, nAdd, nRemoved, lastWriter, nMutations,
                   itemVars, userVars, basicVars>>

\* public getAllItems(): return [...this.libraryItems].  The array the caller
\* held before is garbage once its variable is overwritten.
getAllItems(c) ==
    /\ refs[c] # 0
    /\ LET inUse == allocated \ ({held} \ catalogueArrays)
       IN  /\ ArrRefs \ inUse # {}
           /\ LET r == freshRef(inUse)
              IN  /\ arrays' = [q \in ArrRefs |->
                                   IF q = r THEN spread(elementsOf(refs[c]))
                                   ELSE IF q \in inUse THEN arrays[q] ELSE <<>>]
                  /\ allocated' = inUse \cup {r}
                  /\ held' = r
                  /\ ret' = [op |-> "getAllItems", via |-> c, this |-> refs[c], arg |-> undefined,
                             val |-> spread(elementsOf(refs[c]))]
    /\ UNCHANGED <<instance, cats, refs, nAdd, nRemoved, lastWriter, nMutations,
                   itemVars, userVars, basicVars>>

-----------------------------------------------------------------------------
(* What a caller can do to the array getAllItems() returned *)

\* a caller can mutate an array only when it holds one
mutateHeld(kind, newContent) ==
    /\ nMutations < MaxMutations
    /\ arrays' = [arrays EXCEPT ![held] = newContent]
    /\ nMutations' = nMutations + 1
    /\ ret' = [op |-> kind, via |-> 0, this |-> 0, arg |-> undefined, val |-> undefined]
    /\ UNCHANGED <<instance, cats, allocated, refs, held, nAdd, nRemoved, lastWriter,
                   itemVars, userVars, basicVars>>

\* returned.push(item)
heldPush(item) ==
    /\ held # 0
    /\ mutateHeld("held.push", push(arrays[held], item))

\* returned.pop()
heldPop ==
    /\ held # 0
    /\ arrays[held] # <<>>
    /\ mutateHeld("held.pop", splice(arrays[held], -1, 1))

\* returned.reverse()
heldReverse ==
    /\ held # 0
    /\ mutateHeld("held.reverse",
                  [i \in 1..Len(arrays[held]) |-> arrays[held][Len(arrays[held]) + 1 - i]])

\* returned[0] = item
heldSet(item) ==
    /\ held # 0
    /\ mutateHeld("held.set",
                  IF arrays[held] = <<>> THEN <<item>> ELSE [arrays[held] EXCEPT ![1] = item])

-----------------------------------------------------------------------------
(* Specifications *)

\* the catalogue and its queries, used through the one variable catalogue
Next ==
    \/ getInstance(Catalogue)
    \/ \E item \in Items : addItem(Catalogue, item)
    \/ \E id \in QueryIds : removeItem(Catalogue, id)
    \/ getItemCount(Catalogue)
    \/ \E title \in QueryTitles : findItemByTitle(Catalogue, title)
    \/ \E itemType \in QueryTypes : findItemsByType(Catalogue, itemType)
    \/ getStatistics(Catalogue)

Spec == Init /\ [][Next]_vars

\* the catalogue used through both variables, by a caller that also mutates
\* the array getAllItems() returned
NextCallers ==
    \/ \E c \in Callers : getInstance(c)
    \/ \E c \in Callers, item \in FewItems : addItem(c, item)
    \/ \E c \in Callers, id \in QueryIds : removeItem(c, id)
    \/ \E c \in Callers : getItemCount(c)
    \/ \E c \in Callers : getAllItems(c)
    \/ \E item \in FewItems : heldPush(item)
    \/ heldPop
    \/ heldReverse
    \/ \E item \in FewItems : heldSet(item)

SpecCallers == Init /\ [][NextCallers]_vars

\* the catalogue and its five queries
NextQueries ==
    \/ getInstance(Catalogue)
    \/ \E item \in FewItems : addItem(Catalogue, item)
    \/ \E id \in Ids : removeItem(Catalogue, id)
    \/ getItemCount(Catalogue)
    \/ \E title \in QueryTitles : findItemByTitle(Catalogue, title)
    \/ \E itemType \in QueryTypes : findItemsByType(Catalogue, itemType)
    \/ getAllItems(Catalogue)
    \/ getStatistics(Catalogue)

SpecQueries == Init /\ [][NextQueries]_vars

-----------------------------------------------------------------------------
(* The catalogue scenario: Book 1 "The Great Gatsby", Book 2 "1984" and    *)
(* AudioBook 3 "Dune" are added in this order to the empty catalogue, then *)
(* item 2 is removed; queries are made at any point.                       *)

\* "The Great Gatsby"
TheGreatGatsby == <<84, 104, 101, 32, 71, 114, 101, 97, 116, 32, 71, 97, 116, 115, 98, 121>>
\* "1984"
NineteenEightyFour == <<49, 57, 56, 52>>
\* "Dune"
Dune == <<68, 117, 110, 101>>

\* titles asked for in the scenario: the three titles, "the great gatsby", "19"
ScenarioQueryTitles ==
    { TheGreatGatsby, NineteenEightyFour, Dune, toLowerCase(TheGreatGatsby), <<49, 57>> }

\* the items the scenario may add next; the fields the scenario leaves open vary
scenarioNextItems ==
    IF nAdd = 0 THEN { Book(1, TheGreatGatsby, a, Isbn978) : a \in {Fitzgerald, Orwell} }
    ELSE IF nAdd = 1 THEN { Book(2, NineteenEightyFour, a, Isbn978) : a \in {Fitzgerald, Orwell} }
    ELSE IF nAdd = 2 THEN { AudioBook(3, Dune, Pike, len) : len \in {540, 720} }
    ELSE {}

NextScenario ==
    \/ getInstance(Catalogue)
    \/ \E item \in scenarioNextItems : addItem(Catalogue, item)
    \/ nAdd = 3 /\ nRemoved = 0 /\ removeItem(Catalogue, 2)
    \/ getItemCount(Catalogue)
    \/ \E title \in ScenarioQueryTitles : findItemByTitle(Catalogue, title)
    \/ \E itemType \in QueryTypes : findItemsByType(Catalogue, itemType)
    \/ getStatistics(Catalogue)

SpecScenario == Init /\ [][NextScenario]_vars

-----------------------------------------------------------------------------
(* Item objects: constructors, getters and setters of Book and AudioBook   *)

\* the k-th item object is o
isBook(o) == objs[o].ctor = "Book"
isAudioBook(o) == objs[o].ctor = "AudioBook"
ObjRefs == 1..Len(objs)

\* the record of a call on an item object
itemCall(op, o, arg, val) == [op |-> op, via |-> 0, this |-> o, arg |-> arg, val |-> val]

\* new Book(id, title, author, ISBN)
newBook(id, title, author, ISBN) ==
    /\ Len(objs) < MaxObjects
    /\ objs' = Append(objs, Book(id, title, author, ISBN))
    /\ born' = Append(born, [cls |-> "Book", id |-> id])
    /\ ret' = itemCall("new Book", Len(objs) + 1, [id |-> id], Len(objs) + 1)
    /\ UNCHANGED <<catalogueVars, heapVars, userVars, basicVars>>

\* new AudioBook(id, title, narrator, length)
newAudioBook(id, title, narrator, length) ==
    /\ Len(objs) < MaxObjects
    /\ objs' = Append(objs, AudioBook(id, title, narrator, length))
    /\ born' = Append(born, [cls |-> "AudioBook", id |-> id, length |-> length])
    /\ ret' = itemCall("new AudioBook", Len(objs) + 1, [id |-> id, length |-> length], Len(objs) + 1)
    /\ UNCHANGED <<catalogueVars, heapVars, userVars, basicVars>>

\* item.getId()
callGetId(o) ==
    /\ ret' = itemCall("getId", o, undefined, getId(objs[o]))
    /\ UNCHANGED <<catalogueVars, heapVars, itemVars, userVars, basicVars>>

\* item.getItemType()
callGetItemType(o) ==
    /\ ret' = itemCall("getItemType", o, undefined, getItemType(objs[o]))
    /\ UNCHANGED <<catalogueVars, heapVars, itemVars, userVars, basicVars>>

\* if (value && value.trim().length > 0)
nonBlank(value) == value # <<>> /\ Len(trim(value)) > 0

\* Book.setAuthor(author)
setAuthor(o, author) ==
    /\ isBook(o)
    /\ IF nonBlank(author)
       THEN /\ objs' = [objs EXCEPT ![o].author = trim(author)]
            /\ ret' = itemCall("setAuthor", o, author, undefined)
       ELSE /\ UNCHANGED objs
            /\ ret' = itemCall("setAuthor", o, author, Error("Author name cannot be empty"))
    /\ UNCHANGED <<catalogueVars, heapVars, born, userVars, basicVars>>

\* Book.setISBN(ISBN)
setISBN(o, ISBN) ==
    /\ isBook(o)
    /\ IF nonBlank(ISBN)
       THEN /\ objs' = [objs EXCEPT ![o].ISBN = trim(ISBN)]
            /\ ret' = itemCall("setISBN", o, ISBN, undefined)
       ELSE /\ UNCHANGED objs
            /\ ret' = itemCall("setISBN", o, ISBN, Error("ISBN cannot be empty"))
    /\ UNCHANGED <<catalogueVars, heapVars, born, userVars, basicVars>>

\* a variant that assigns before it validates
setNarratorAssignFirst(o, narrator) ==
    /\ isAudioBook(o)
    /\ objs' = [objs EXCEPT ![o].narrator = trim(narrator)]
    /\ ret' = itemCall("setNarrator", o, narrator,
                       IF nonBlank(narrator) THEN undefined ELSE Error("Narrator name cannot be empty"))
    /\ UNCHANGED <<catalogueVars, heapVars, born, userVars, basicVars>>

\* AudioBook.setNarrator(narrator)
setNarrator(o, narrator) ==
    /\ isAudioBook(o)
    /\ IF nonBlank(narrator)
       THEN /\ objs' = [objs EXCEPT ![o].narrator = trim(narrator)]
            /\ ret' = itemCall("setNarrator", o, narrator, undefined)
       ELSE /\ UNCHANGED objs
            /\ ret' = itemCall("setNarrator", o, narrator, Error("Narrator name cannot be empty"))
    /\ UNCHANGED <<catalogueVars, heapVars, born, userVars, basicVars>>

\* a variant that assigns the wrong field (this.id = length)
setLengthIntoId(o, length) ==
    /\ isAudioBook(o)
    /\ IF length > 0
       THEN /\ objs' = [objs EXCEPT ![o].id = length]
            /\ ret' = itemCall("setLength", o, length, undefined)
       ELSE /\ UNCHANGED objs
            /\ ret' = itemCall("setLength", o, length, Error("Length must be greater than 0 minutes"))
    /\ UNCHANGED <<catalogueVars, heapVars, born, userVars, basicVars>>

\* AudioBook.setLength(length)
setLength(o, length) ==
    /\ isAudioBook(o)
    /\ IF length > 0
       THEN /\ objs' = [objs EXCEPT ![o].length = length]
            /\ ret' = itemCall("setLength", o, length, undefined)
       ELSE /\ UNCHANGED objs
            /\ ret' = itemCall("setLength", o, length, Error("Length must be greater than 0 minutes"))
    /\ UNCHANGED <<catalogueVars, heapVars, born, userVars, basicVars>>

\* the strings given to the setters: "" and " " are rejected, the others
\* are accepted: " Orwell ", " 978 ", " Pike "
AuthorInputs == { <<>>, <<32>> \o Orwell \o <<32>> }
ISBNInputs == { <<32>>, <<32>> \o Isbn978 \o <<32>> }
NarratorInputs == { <<>>, <<32>> \o Pike \o <<32>> }
\* the lengths given to new AudioBook (-10 is the one of main) and to setLength
NewLengths == { -10, 60 }
SetLengths == { 0, 60 }

\* item objects, their setters, and the catalogue that holds them
NextItems ==
    \/ \E id \in Ids : newBook(id, Dune, Orwell, Isbn978)
    \/ \E id \in Ids, length \in NewLengths : newAudioBook(id, Dune, Pike, length)
    \/ \E o \in ObjRefs : callGetId(o)
    \/ \E o \in ObjRefs : callGetItemType(o)
    \/ \E o \in ObjRefs, author \in AuthorInputs : setAuthor(o, author)
    \/ \E o \in ObjRefs, ISBN \in ISBNInputs : setISBN(o, ISBN)
    \/ \E o \in ObjRefs, narrator \in NarratorInputs : setNarrator(o, narrator)
    \/ \E o \in ObjRefs, length \in SetLengths : setLength(o, length)
    \/ getInstance(Catalogue)
    \/ \E o \in ObjRefs : addItem(Catalogue, [ref |-> o])
    \/ \E id \in Ids : removeItem(Catalogue, id)
    \/ getItemCount(Catalogue)
    \/ findItemByTitle(Catalogue, Dune)
    \/ findItemsByType(Catalogue, "Book")
    \/ getAllItems(Catalogue)
    \/ getStatistics(Catalogue)

SpecItems == Init /\ [][NextItems]_vars

-----------------------------------------------------------------------------
(* The validating User: name, email and the list of borrowed titles        *)

\* emailRegex.test(s) for /^[^\s@]+@[^\s@]+\.[^\s@]+$/ : some "@" and some later "." split s into
\* three non-empty runs of characters that are neither white space nor "@"
emailRegexTest(s) ==
    \E at \in 1..Len(s), dot \in 1..Len(s) :
        /\ s[at] = 64
        /\ s[dot] = 46
        /\ 1 < at
        /\ at + 1 < dot
        /\ dot < Len(s)
        /\ \A i \in 1..Len(s) : i \notin {at, dot} => ~isWhitespace(s[i]) /\ s[i] # 64

isError(v) == DOMAIN v = {"error"}

\* the checks of setName: the error thrown, undefined when none is
nameCheckAtLeastOne(name) ==
    IF name = <<>> \/ Len(trim(name)) = 0 THEN Error("Name cannot be empty")
    ELSE IF Len(trim(name)) < 1 THEN Error("Name must be at least 2 characters long")
    ELSE undefined
nameCheck(name) ==
    IF name = <<>> \/ Len(trim(name)) = 0 THEN Error("Name cannot be empty")
    ELSE IF Len(trim(name)) < 2 THEN Error("Name must be at least 2 characters long")
    ELSE undefined

\* the checks of setEmail
emailCheck(email) ==
    IF email = <<>> \/ Len(trim(email)) = 0 THEN Error("Email cannot be empty")
    ELSE IF ~emailRegexTest(trim(email)) THEN Error("Invalid email format")
    ELSE undefined

\* this.setName(name): the object after the call, or the error thrown
setNameOn(this, name) ==
    IF nameCheck(name) # undefined THEN nameCheck(name) ELSE [this EXCEPT !.name = trim(name)]

\* this.setEmail(email)
setEmailOn(this, email) ==
    IF emailCheck(email) # undefined THEN emailCheck(email)
    ELSE [this EXCEPT !.email = toLowerCase(trim(email))]

\* the object under construction before the constructor body runs
blankUser == [name |-> undefined, email |-> undefined, borrowedBooks |-> undefined]

\* the constructor body: setName, setEmail, then the empty list
constructUser(name, email) ==
    LET named == setNameOn(blankUser, name)
        mailed == setEmailOn(named, email)
    IN  IF isError(named) THEN named
        ELSE IF isError(mailed) THEN mailed
        ELSE [mailed EXCEPT !.borrowedBooks = <<>>]

\* the list borrowBook leaves
borrowAlways(borrowedBooks, bookTitle) == push(borrowedBooks, bookTitle)
borrow(borrowedBooks, bookTitle) ==
    IF ~includes(borrowedBooks, bookTitle) THEN push(borrowedBooks, bookTitle) ELSE borrowedBooks

\* the test returnBook makes on the index indexOf returned
returnIndexFoundAfterFirst(index) == index > 0
returnIndexFound(index) == index > -1

\* the list returnBook leaves
giveBack(borrowedBooks, bookTitle) ==
    LET index == indexOf(borrowedBooks, bookTitle)
    IN  IF returnIndexFound(index) THEN splice(borrowedBooks, index, 1) ELSE borrowedBooks

userCall(op, arg, val, log) == [op |-> op, via |-> 0, this |-> 0, arg |-> arg, val |-> val, log |-> log]

\* user = new User(name, email); a throwing constructor leaves the variable as it was
newUser(name, email) ==
    LET made == constructUser(name, email)
    IN  /\ IF isError(made)
           THEN /\ ret' = userCall("new User", [name |-> name, email |-> email], made, "")
                /\ UNCHANGED userVars
           ELSE /\ user' = made
                /\ outstanding' = {}
                /\ ret' = userCall("new User", [name |-> name, email |-> email], undefined, "")
        /\ UNCHANGED <<catalogueVars, heapVars, itemVars, basicVars>>

setName(name) ==
    /\ user # undefined
    /\ LET after == setNameOn(user, name)
       IN  IF isError(after)
           THEN /\ ret' = userCall("setName", name, after, "")
                /\ UNCHANGED user
           ELSE /\ user' = after
                /\ ret' = userCall("setName", name, undefined, "")
    /\ UNCHANGED <<catalogueVars, heapVars, itemVars, basicVars, outstanding>>

setEmail(email) ==
    /\ user # undefined
    /\ LET after == setEmailOn(user, email)
       IN  IF isError(after)
           THEN /\ ret' = userCall("setEmail", email, after, "")
                /\ UNCHANGED user
           ELSE /\ user' = after
                /\ ret' = userCall("setEmail", email, undefined, "")
    /\ UNCHANGED <<catalogueVars, heapVars, itemVars, basicVars, outstanding>>

borrowBook(bookTitle) ==
    /\ user # undefined
    /\ user' = [user EXCEPT !.borrowedBooks = borrow(user.borrowedBooks, bookTitle)]
    /\ outstanding' = outstanding \cup {bookTitle}
    /\ ret' = userCall("borrowBook", bookTitle, undefined,
                       IF ~includes(user.borrowedBooks, bookTitle) THEN "has borrowed"
                       ELSE "has already borrowed")
    /\ UNCHANGED <<catalogueVars, heapVars, itemVars, basicVars>>

returnBook(bookTitle) ==
    /\ user # undefined
    /\ user' = [user EXCEPT !.borrowedBooks = giveBack(user.borrowedBooks, bookTitle)]
    /\ outstanding' = outstanding \ {bookTitle}
    /\ ret' = userCall("returnBook", bookTitle, undefined,
                       IF returnIndexFound(indexOf(user.borrowedBooks, bookTitle)) THEN "has returned"
                       ELSE "has not borrowed")
    /\ UNCHANGED <<catalogueVars, heapVars, itemVars, basicVars>>

hasBorrowed(bookTitle) ==
    /\ user # undefined
    /\ ret' = userCall("hasBorrowed", bookTitle, includes(user.borrowedBooks, bookTitle), "")
    /\ UNCHANGED <<catalogueVars, heapVars, itemVars, userVars, basicVars>>

getBorrowedBooksCount ==
    /\ user # undefined
    /\ ret' = userCall("getBorrowedBooksCount", undefined, Len(user.borrowedBooks), "")
    /\ UNCHANGED <<catalogueVars, heapVars, itemVars, userVars, basicVars>>

\* getBorrowedBooks(): a copy of the list
getBorrowedBooks ==
    /\ user # undefined
    /\ ret' = userCall("getBorrowedBooks", undefined, spread(user.borrowedBooks), "")
    /\ UNCHANGED <<catalogueVars, heapVars, itemVars, userVars, basicVars>>

\* names and emails given to the constructor and the setters: "", " ", "a", " a ", "Al", " Al ", "Bo"
NameInputs == {<<>>, <<32>>, <<97>>, <<32, 97, 32>>, <<65, 108>>, <<32, 65, 108, 32>>, <<66, 111>>}

\* "", " ", "ab", "a@b", "a@b.", "@b.c", "a @b.c", "a@@b.c", "a@b.c", " A@B.C ", "x@y.z"
EmailInputs ==
    {<<>>, <<32>>, <<97, 98>>, <<97, 64, 98>>, <<97, 64, 98, 46>>, <<64, 98, 46, 99>>,
     <<97, 32, 64, 98, 46, 99>>, <<97, 64, 64, 98, 46, 99>>, <<97, 64, 98, 46, 99>>,
     <<32, 65, 64, 66, 46, 67, 32>>, <<120, 64, 121, 46, 122>>}

\* the titles borrowed and returned
BorrowTitles == {TheGreatGatsby, NineteenEightyFour, Dune}

NextUser ==
    \/ \E name \in NameInputs, email \in EmailInputs : newUser(name, email)
    \/ \E name \in NameInputs : setName(name)
    \/ \E email \in EmailInputs : setEmail(email)
    \/ \E bookTitle \in BorrowTitles : borrowBook(bookTitle)
    \/ \E bookTitle \in BorrowTitles : returnBook(bookTitle)
    \/ \E bookTitle \in BorrowTitles : hasBorrowed(bookTitle)
    \/ getBorrowedBooksCount
    \/ getBorrowedBooks

SpecUser == Init /\ [][NextUser]_vars

-----------------------------------------------------------------------------
(* The setters of Book, AudioBook and User together                        *)

\* the strings given to the setters of Book and AudioBook: "", " ", " Pike ", " Orwell ", "978"
SetterStrings == { <<>>, <<32>>, <<32>> \o Pike \o <<32>>, <<32>> \o Orwell \o <<32>>, Isbn978 }

\* names and emails given to the User: " Al ", "a", "Bo" and "a@b.c", "ab", " A@B.C ", "x@y.z", " "
SetterNames == { <<32, 65, 108, 32>>, <<97>>, <<66, 111>> }
SetterEmails == { <<97, 64, 98, 46, 99>>, <<97, 98>>, <<32, 65, 64, 66, 46, 67, 32>>,
                  <<120, 64, 121, 46, 122>>, <<32>> }

\* a Book, an AudioBook and a User, their setters, and a borrowed title
NextSetters ==
    \/ newBook(1, Dune, Orwell, Isbn978)
    \/ newAudioBook(2, Dune, Pike, 540)
    \/ \E o \in ObjRefs, author \in SetterStrings : setAuthor(o, author)
    \/ \E o \in ObjRefs, ISBN \in SetterStrings : setISBN(o, ISBN)
    \/ \E o \in ObjRefs, narrator \in SetterStrings : setNarrator(o, narrator)
    \/ \E o \in ObjRefs, length \in SetLengths \cup {-10} : setLength(o, length)
    \/ \E name \in SetterNames, email \in SetterEmails : newUser(name, email)
    \/ \E name \in SetterNames \cup {<<>>} : setName(name)
    \/ \E email \in SetterEmails : setEmail(email)
    \/ borrowBook(Dune)
    \/ returnBook(Dune)

SpecSetters == Init /\ [][NextSetters]_vars

-----------------------------------------------------------------------------
(* The earlier LibraryCatalogue class: a public constructor, Books only    *)

\* the Books added to a catalogue of the earlier class
FewBooks == { Book(1, <<68, 117>>, Orwell, Isbn978), Book(2, <<100, 117>>, Fitzgerald, Isbn978) }

simpleCall(op, this, arg, val) == [op |-> op, via |-> 0, this |-> this, arg |-> arg, val |-> val]

\* new LibraryCatalogue(): this.libraryItems = []
newLibraryCatalogue ==
    /\ Len(basics) < MaxCatalogues
    /\ ArrRefs \ allocated # {}
    /\ LET r == freshRef(allocated)
       IN  /\ arrays' = [arrays EXCEPT ![r] = <<>>]
           /\ allocated' = allocated \cup {r}
           /\ basics' = Append(basics, r)
           /\ ret' = simpleCall("new LibraryCatalogue", 0, undefined, Len(basics) + 1)
    /\ UNCHANGED <<catalogueVars, held, nMutations, itemVars, userVars>>

\* addItem(item: Book) of the earlier class
simpleAddItem(this, item) ==
    /\ nAdd < MaxAdds
    /\ arrays' = [arrays EXCEPT ![basics[this]] = push(@, item)]
    /\ nAdd' = nAdd + 1
    /\ ret' = simpleCall("simple.addItem", this, item, undefined)
    /\ UNCHANGED <<instance, cats, refs, nRemoved, lastWriter, allocated, held, nMutations,
                   itemVars, userVars, basicVars>>

\* getBookCount() of the earlier class
simpleGetBookCount(this) ==
    /\ ret' = simpleCall("simple.getBookCount", this, undefined, Len(arrays[basics[this]]))
    /\ UNCHANGED <<catalogueVars, heapVars, itemVars, userVars, basicVars>>

\* findBookByTitle(title) of the earlier class
simpleFindBookByTitle(this, title) ==
    /\ ret' = simpleCall("simple.findBookByTitle", this, title, findByTitle(arrays[basics[this]], title))
    /\ UNCHANGED <<catalogueVars, heapVars, itemVars, userVars, basicVars>>

\* a variant that hands out the internal array (return this.libraryItems)
simpleGetAllBooksAlias(this) ==
    /\ held' = basics[this]
    /\ ret' = simpleCall("simple.getAllBooks", this, undefined, arrays[basics[this]])
    /\ UNCHANGED <<catalogueVars, arrays, allocated, nMutations, itemVars, userVars, basicVars>>

\* getAllBooks() of the earlier class: return [...this.libraryItems]
simpleGetAllBooks(this) ==
    /\ LET inUse == allocated \ ({held} \ catalogueArrays)
       IN  /\ ArrRefs \ inUse # {}
           /\ LET r == freshRef(inUse)
              IN  /\ arrays' = [q \in ArrRefs |->
                                   IF q = r THEN spread(arrays[basics[this]])
                                   ELSE IF q \in inUse THEN arrays[q] ELSE <<>>]
                  /\ allocated' = inUse \cup {r}
                  /\ held' = r
                  /\ ret' = simpleCall("simple.getAllBooks", this, undefined, spread(arrays[basics[this]]))
    /\ UNCHANGED <<catalogueVars, nMutations, itemVars, userVars, basicVars>>

\* a catalogue of the earlier class, used by a caller that also mutates the
\* array getAllBooks() returned
NextSimple ==
    \/ newLibraryCatalogue
    \/ \E this \in 1..Len(basics), item \in FewBooks : simpleAddItem(this, item)
    \/ \E this \in 1..Len(basics) : simpleGetBookCount(this)
    \/ \E this \in 1..Len(basics), title \in Titles \cup {<<68>>} : simpleFindBookByTitle(this, title)
    \/ \E this \in 1..Len(basics) : simpleGetAllBooks(this)
    \/ \E item \in FewBooks : heldPush(item)
    \/ heldPop
    \/ heldReverse
    \/ \E item \in FewBooks : heldSet(item)

SpecSimple == Init /\ [][NextSimple]_vars

-----------------------------------------------------------------------------
(* The deprecated methods of the singleton LibraryCatalogue, each the call *)
(* of its replacement                                                      *)

\* @deprecated addBook(book): this.addItem(book)
addBook(c, book) ==
    /\ refs[c] # 0
    /\ nAdd < MaxAdds
    /\ arrays' = [arrays EXCEPT ![cats[refs[c]]] = pushItem(@, book)]
    /\ nAdd' = nAdd + 1
    /\ lastWriter' = c
    /\ ret' = [op |-> "addBook", via |-> c, this |-> refs[c], arg |-> book, val |-> undefined]
    /\ UNCHANGED <<instance, cats, allocated, refs, held, nRemoved, nMutations,
                   itemVars, userVars, basicVars>>

\* a variant that counts the Books only
getBookCountOfBooks(c) ==
    /\ refs[c] # 0
    /\ ret' = [op |-> "getBookCount", via |-> c, this |-> refs[c], arg |-> undefined,
               val |-> Len(filterByType(itemsOf(refs[c]), "Book"))]
    /\ UNCHANGED <<instance, cats, arrays, allocated, refs, held, nAdd, nRemoved, lastWriter, nMutations,
                   itemVars, userVars, basicVars>>

\* @deprecated getBookCount(): return this.getItemCount()
getBookCount(c) ==
    /\ refs[c] # 0
    /\ ret' = [op |-> "getBookCount", via |-> c, this |-> refs[c], arg |-> undefined,
               val |-> Len(itemsOf(refs[c]))]
    /\ UNCHANGED <<instance, cats, arrays, allocated, refs, held, nAdd, nRemoved, lastWriter, nMutations,
                   itemVars, userVars, basicVars>>

\* @deprecated findBookByTitle(title): return this.findItemByTitle(title)
findBookByTitle(c, title) ==
    /\ refs[c] # 0
    /\ ret' = [op |-> "findBookByTitle", via |-> c, this |-> refs[c], arg |-> title,
               val |-> findByTitle(itemsOf(refs[c]), title)]
    /\ UNCHANGED <<instance, cats, arrays, allocated, refs, held, nAdd, nRemoved, lastWriter, nMutations,
                   itemVars, userVars, basicVars>>

\* @deprecated getAllBooks(): return this.getAllItems()
getAllBooks(c) ==
    /\ refs[c] # 0
    /\ LET inUse == allocated \ ({held} \ catalogueArrays)
       IN  /\ ArrRefs \ inUse # {}
           /\ LET r == freshRef(inUse)
              IN  /\ arrays' = [q \in ArrRefs |->
                                   IF q = r THEN spread(elementsOf(refs[c]))
                                   ELSE IF q \in inUse THEN arrays[q] ELSE <<>>]
                  /\ allocated' = inUse \cup {r}
                  /\ held' = r
                  /\ ret' = [op |-> "getAllBooks", via |-> c, this |-> refs[c], arg |-> undefined,
                             val |-> spread(elementsOf(refs[c]))]
    /\ UNCHANGED <<instance, cats, refs, nAdd, nRemoved, lastWriter, nMutations,
                   itemVars, userVars, basicVars>>

\* the catalogue used through the deprecated methods and their replacements
NextDeprecated ==
    \/ getInstance(Catalogue)
    \/ \E item \in FewItems : addItem(Catalogue, item)
    \/ \E book \in FewBooks : addBook(Catalogue, book)
    \/ \E id \in Ids : removeItem(Catalogue, id)
    \/ getItemCount(Catalogue)
    \/ getBookCount(Catalogue)
    \/ \E title \in Titles \cup {<<68>>} : findItemByTitle(Catalogue, title)
    \/ \E title \in Titles \cup {<<68>>} : findBookByTitle(Catalogue, title)
    \/ getAllItems(Catalogue)
    \/ getAllBooks(Catalogue)

SpecDeprecated == Init /\ [][NextDeprecated]_vars

-----------------------------------------------------------------------------
(* Properties.  They are stated over the recorded calls (ret) and the      *)
(* heap, with their own definitions of "first", "matching" and "sum", not  *)
(* with the operators the methods are modelled by.                         *)

\* the catalogue content a recorded call was made on
calledOn(r) == arrays[cats[r.this]]

\* the positions of seq whose item has the given id
positionsOfId(seq, id) == { i \in 1..Len(seq) : seq[i].id = id }

\* the least element of a non-empty set of numbers
least(S) == CHOOSE i \in S : \A j \in S : i <= j

\* seq without its k-th element
without(seq, k) == [i \in 1..(Len(seq) - 1) |-> IF i < k THEN seq[i] ELSE seq[i + 1]]

\* a character with its case folded away
foldCase(ch) == IF ch \in 97..122 THEN ch - 32 ELSE ch

\* two titles are the same text when letter case is ignored
sameIgnoringCase(s, t) ==
    /\ Len(s) = Len(t)
    /\ \A i \in 1..Len(s) : foldCase(s[i]) = foldCase(t[i])

\* the sum of the values of a function with a finite domain
RECURSIVE sumOfValues(_)
sumOfValues(f) ==
    IF DOMAIN f = {} THEN 0
    ELSE LET k == CHOOSE x \in DOMAIN f : TRUE
         IN  f[k] + sumOfValues([x \in DOMAIN f \ {k} |-> f[x]])

\* the items of seq of the given type, in order
RECURSIVE onlyOfType(_, _)
onlyOfType(seq, t) ==
    IF seq = << >> THEN << >>
    ELSE (IF Head(seq).ctor = t THEN << Head(seq) >> ELSE << >>) \o onlyOfType(Tail(seq), t)

\* C1: getItemCount() returns the number of addItem calls minus the number
\* of removeItem calls that returned true.
C1_CountIsAddsMinusRemovals ==
    ret.op = "getItemCount" => ret.val = nAdd - nRemoved

C1_Witness ==
    /\ ret.op = "getItemCount"
    /\ nAdd = 3
    /\ nRemoved = 2
    /\ ret.val = 1

\* C2: when some item has the id, removeItem(id) returns true and deletes
\* exactly the first entry with that id; all other entries stay, in order.
C2_RemoveDeletesFirstMatch ==
    [][ (ret'.op = "removeItem" /\ positionsOfId(arrays[cats[ret'.this]], ret'.arg) # {})
        => LET before == arrays[cats[ret'.this]]
               after == arrays'[cats'[ret'.this]]
               k == least(positionsOfId(before, ret'.arg))
           IN  /\ ret'.val = TRUE
               /\ Len(after) = Len(before) - 1
               /\ after = without(before, k)
               /\ nRemoved' = nRemoved + 1 ]_vars

\* a removal that left a later entry with the same id in place
C2_Witness ==
    /\ ret.op = "removeItem"
    /\ ret.val = TRUE
    /\ Len(calledOn(ret)) = 2
    /\ calledOn(ret)[1].id # ret.arg
    /\ calledOn(ret)[2].id = ret.arg

\* C3: when no item has the id, removeItem(id) returns false and leaves the
\* catalogue (and every other array) as it was.
C3_RemoveMissingIsNoOp ==
    [][ (ret'.op = "removeItem" /\ positionsOfId(arrays[cats[ret'.this]], ret'.arg) = {})
        => /\ ret'.val = FALSE
           /\ arrays' = arrays
           /\ cats' = cats
           /\ nRemoved' = nRemoved ]_vars

\* a failed removal on a catalogue that holds two items
C3_Witness ==
    /\ ret.op = "removeItem"
    /\ ret.val = FALSE
    /\ Len(calledOn(ret)) = 2
    /\ positionsOfId(calledOn(ret), ret.arg) = {}

\* a failed removal on the empty catalogue
C3_WitnessEmpty ==
    /\ ret.op = "removeItem"
    /\ ret.val = FALSE
    /\ nAdd = 0
    /\ calledOn(ret) = << >>

\* C4: addItem(item) appends: the new sequence is the old one followed by
\* item, whatever the catalogue already holds.
C4_AddAppends ==
    [][ ret'.op = "addItem"
        => /\ arrays'[cats'[ret'.this]] = arrays[cats[ret'.this]] \o << ret'.arg >>
           /\ \A r \in ArrRefs \ {cats[ret'.this]} : arrays'[r] = arrays[r] ]_vars

\* the very same item added when it is already in the catalogue
C4_Witness ==
    /\ ret.op = "addItem"
    /\ Len(calledOn(ret)) = 3
    /\ calledOn(ret)[3] = ret.arg
    /\ calledOn(ret)[1] = ret.arg
    /\ calledOn(ret)[2].id = ret.arg.id
    /\ calledOn(ret)[2] # ret.arg

\* C5: getAllItems() returns a copy with the same items in the same order,
\* and no mutation of the returned array changes the catalogue, hence
\* neither a later getItemCount() nor a later getAllItems().
C5_GetAllItemsIsACopy ==
    [][ /\ ret'.op = "getAllItems"
           => /\ ret'.val = arrays[cats[ret'.this]]
              /\ arrays'[held'] = arrays[cats[ret'.this]]
              /\ arrays'[cats'[ret'.this]] = arrays[cats[ret'.this]]
        /\ ret'.op \in {"held.push", "held.pop", "held.reverse", "held.set"}
           => /\ \A k \in 1..Len(cats) : arrays'[cats'[k]] = arrays[cats[k]]
              /\ cats' = cats ]_vars

\* the returned array was mutated and now differs from the catalogue
C5_Witness ==
    /\ ret.op \in {"held.push", "held.pop", "held.reverse", "held.set"}
    /\ nMutations = 2
    /\ instance # 0
    /\ Len(arrays[cats[instance]]) = 2
    /\ Len(arrays[held]) = 3
    /\ arrays[held][1] # arrays[cats[instance]][1]

\* C6: every getInstance() returns the one catalogue: all references are
\* the same object, only one catalogue object exists, and what was added or
\* removed through any reference is what every reference observes.
C6_OneInstance ==
    /\ Len(cats) <= 1
    /\ \A c \in Callers : refs[c] # 0 => refs[c] = instance
    /\ \A c \in Callers : refs[c] # 0 => Len(arrays[cats[refs[c]]]) = nAdd - nRemoved
    /\ ret.op = "getInstance" => ret.val = instance /\ ret.val # 0

\* an item added through one reference is counted through the other
C6_Witness ==
    /\ ret.op = "getItemCount"
    /\ ret.via = Catalogue2
    /\ lastWriter = Catalogue
    /\ refs[Catalogue] # 0
    /\ refs[Catalogue2] = refs[Catalogue]
    /\ ret.val = 2
    /\ nRemoved = 1

\* C7: getStatistics().total is the sum of the values of byType.
C7_TotalIsSumByType ==
    ret.op = "getStatistics" => ret.val.total = sumOfValues(ret.val.byType)

\* statistics over two types, after a removal
C7_Witness ==
    /\ ret.op = "getStatistics"
    /\ nRemoved >= 1
    /\ ret.val.total = 2
    /\ DOMAIN ret.val.byType = {"Book", "AudioBook"}

\* C8: total is the item count; byType has a key exactly for the types of
\* the current items, and its value is the number of current items of that
\* type, which is the length of findItemsByType of it; no value is zero.
C8_StatisticsByType ==
    ret.op = "getStatistics"
    => LET items == calledOn(ret)
       IN  /\ ret.val.total = Len(items)
           /\ DOMAIN ret.val.byType = { items[i].ctor : i \in 1..Len(items) }
           /\ \A t \in DOMAIN ret.val.byType :
                 /\ ret.val.byType[t] = Cardinality({ i \in 1..Len(items) : items[i].ctor = t })
                 /\ ret.val.byType[t] = Len(filterByType(items, t))
                 /\ ret.val.byType[t] > 0

\* statistics after every item that was added has been removed again
C8_Witness ==
    /\ ret.op = "getStatistics"
    /\ nAdd = 2
    /\ nRemoved = 2
    /\ ret.val.total = 0
    /\ DOMAIN ret.val.byType = {}

\* C9: findItemByTitle(title) returns the first item whose whole title
\* equals title when letter case is ignored, and undefined when there is
\* none.
C9_FindByTitleIgnoresCase ==
    ret.op = "findItemByTitle"
    => LET items == calledOn(ret)
           hits == { i \in 1..Len(items) : sameIgnoringCase(items[i].title, ret.arg) }
       IN  IF hits = {} THEN ret.val = undefined
           ELSE ret.val = items[least(hits)]

\* the item found is written in another case than the title asked for, and
\* an item with exactly that title comes later
C9_Witness ==
    /\ ret.op = "findItemByTitle"
    /\ ret.val # undefined
    /\ ret.val.title # ret.arg
    /\ ret.val = calledOn(ret)[1]
    /\ Len(calledOn(ret)) = 2
    /\ calledOn(ret)[2].title = ret.arg

\* a title that is a proper prefix of a stored title finds nothing
C9_WitnessPrefix ==
    /\ ret.op = "findItemByTitle"
    /\ ret.arg = <<68>>
    /\ ret.val = undefined
    /\ Len(calledOn(ret)) >= 1

\* C10: findItemsByType(itemType) returns the current items whose type tag
\* equals itemType exactly, with their multiplicity and in catalogue order;
\* an empty sequence when there is none.
C10_FindByTypeFilters ==
    ret.op = "findItemsByType" => ret.val = onlyOfType(calledOn(ret), ret.arg)

\* the same Book twice among three items
C10_Witness ==
    /\ ret.op = "findItemsByType"
    /\ ret.arg = "Book"
    /\ Len(calledOn(ret)) = 3
    /\ Len(ret.val) = 2
    /\ ret.val[1] = ret.val[2]
    /\ calledOn(ret)[2].ctor = "AudioBook"

\* a tag that differs in case only selects nothing
C10_WitnessCase ==
    /\ ret.op = "findItemsByType"
    /\ ret.arg = "book"
    /\ ret.val = << >>
    /\ \E i \in 1..Len(calledOn(ret)) : calledOn(ret)[i].ctor = "Book"

\* the (type, id, title) of the items of a sequence
summary(seq) == [i \in 1..Len(seq) |-> <<seq[i].ctor, seq[i].id, seq[i].title>>]

\* C11: after adding Book 1 "The Great Gatsby", Book 2 "1984" and AudioBook 3
\* "Dune" to the empty catalogue, getItemCount() is 3, findItemsByType("Book")
\* is the two Books in insertion order and getStatistics() is
\* {total: 3, byType: {Book: 2, AudioBook: 1}}; then removeItem(2) returns
\* true, getItemCount() is 2 and findItemByTitle("1984") is undefined.
C11_Scenario ==
    /\ (nAdd = 3 /\ nRemoved = 0 /\ ret.op = "getItemCount") => ret.val = 3
    /\ (nAdd = 3 /\ nRemoved = 0 /\ ret.op = "findItemsByType" /\ ret.arg = "Book")
       => summary(ret.val) = << <<"Book", 1, TheGreatGatsby>>, <<"Book", 2, NineteenEightyFour>> >>
    /\ (nAdd = 3 /\ nRemoved = 0 /\ ret.op = "getStatistics")
       => /\ ret.val.total = 3
          /\ DOMAIN ret.val.byType = {"Book", "AudioBook"}
          /\ ret.val.byType["Book"] = 2
          /\ ret.val.byType["AudioBook"] = 1
    /\ ret.op = "removeItem" => ret.val = TRUE /\ nRemoved = 1
    /\ (nRemoved = 1 /\ ret.op = "getItemCount") => ret.val = 2
    /\ (nRemoved = 1 /\ ret.op = "findItemByTitle" /\ ret.arg = NineteenEightyFour)
       => ret.val = undefined
    /\ nRemoved = 1
       => summary(arrays[cats[instance]]) = << <<"Book", 1, TheGreatGatsby>>, <<"AudioBook", 3, Dune>> >>

\* "1984" is looked up after item 2 was removed
C11_Witness ==
    /\ nAdd = 3
    /\ nRemoved = 1
    /\ ret.op = "findItemByTitle"
    /\ ret.arg = NineteenEightyFour
    /\ ret.val = undefined

\* C12: getItemType() returns "Book" for an item constructed as a Book and
\* "AudioBook" for one constructed as an AudioBook, whatever its fields are
\* now and whatever the catalogue holds; the two tags differ.
C12_TypeTagByVariant ==
    /\ ret.op = "getItemType"
       => /\ born[ret.this].cls = "Book" => ret.val = "Book"
          /\ born[ret.this].cls = "AudioBook" => ret.val = "AudioBook"
    /\ \A o \in 1..Len(objs), p \in 1..Len(objs) :
          born[o].cls # born[p].cls => getItemType(objs[o]) # getItemType(objs[p])

\* the tag of an AudioBook whose length was set after construction, while
\* the catalogue holds it
C12_Witness ==
    /\ ret.op = "getItemType"
    /\ ret.val = "AudioBook"
    /\ born[ret.this].length = -10
    /\ objs[ret.this].length = 60
    /\ instance # 0
    /\ Len(elementsOf(instance)) = 2

\* C13: getId() returns the id the item was constructed with, and no call
\* (constructor, setter, catalogue operation) changes the id of an existing
\* item.
C13_IdIsFixed ==
    [][ /\ Len(objs') >= Len(objs)
        /\ \A o \in 1..Len(objs) : objs'[o].id = objs[o].id /\ objs[o].id = born[o].id
        /\ ret'.op \in {"new Book", "new AudioBook"} => objs'[ret'.val].id = ret'.arg.id
        /\ ret'.op = "getId" => ret'.val = born[ret'.this].id ]_vars

\* getId() after a setter was applied and the item went in and out of the catalogue
C13_Witness ==
    /\ ret.op = "getId"
    /\ ret.val = 2
    /\ born[ret.this] = [cls |-> "AudioBook", id |-> 2, length |-> -10]
    /\ objs[ret.this].length = 60
    /\ nAdd >= 1
    /\ nRemoved >= 1

\* C14: new AudioBook with a length <= 0 raises an error, so no AudioBook
\* with a length <= 0 exists.
C14_NoNonPositiveLength ==
    /\ \A o \in 1..Len(objs) : objs[o].ctor = "AudioBook" => objs[o].length > 0
    /\ (ret.op = "new AudioBook" /\ ret.arg.length <= 0) => ret.val \notin 1..Len(objs)

\* the positions of s that hold something other than white space
inked(s) == { i \in 1..Len(s) : s[i] \notin {9, 10, 11, 12, 13, 32} }

\* the greatest element of a non-empty set of numbers
greatest(S) == CHOOSE i \in S : \A j \in S : i >= j

\* s from its first to its last character that is not white space
stripped(s) == IF inked(s) = {} THEN <<>> ELSE SubSeq(s, least(inked(s)), greatest(inked(s)))

\* s has no upper-case letter
isLowerCase(s) == \A i \in 1..Len(s) : s[i] \notin 65..90

\* s with its upper-case letters made lower-case
lowered(s) == [i \in 1..Len(s) |-> IF s[i] \in 65..90 THEN s[i] + 32 ELSE s[i]]

\* s is local@domain.tld: no white space, exactly one "@", something before it,
\* and after it a "." with something on both sides
wellFormedEmail(s) ==
    /\ inked(s) = 1..Len(s)
    /\ Cardinality({ i \in 1..Len(s) : s[i] = 64 }) = 1
    /\ LET at == CHOOSE i \in 1..Len(s) : s[i] = 64
       IN  /\ at > 1
           /\ \E j \in (at + 2)..(Len(s) - 1) : s[j] = 46

acceptableName(name) == Len(stripped(name)) >= 2
acceptableEmail(email) == wellFormedEmail(stripped(email))

raised(r) == DOMAIN r.val = {"error"}

\* C15: new User(name, email), setName and setEmail raise an error when the
\* trimmed name is empty or shorter than 2 characters, or when the email is
\* empty or not local@domain.tld without white space; otherwise the name is
\* stored trimmed and the email trimmed and lower-cased.  So an existing User
\* always has a name of at least 2 characters and a well-formed lower-case
\* email.
C15_UserValidation ==
    [][ /\ ret'.op = "setName"
           => IF acceptableName(ret'.arg)
              THEN ~raised(ret') /\ user'.name = stripped(ret'.arg) /\ user'.email = user.email
              ELSE raised(ret')
        /\ ret'.op = "setEmail"
           => IF acceptableEmail(ret'.arg)
              THEN ~raised(ret') /\ user'.email = lowered(stripped(ret'.arg)) /\ user'.name = user.name
              ELSE raised(ret')
        /\ ret'.op = "new User"
           => IF acceptableName(ret'.arg.name) /\ acceptableEmail(ret'.arg.email)
              THEN /\ ~raised(ret')
                   /\ user'.name = stripped(ret'.arg.name)
                   /\ user'.email = lowered(stripped(ret'.arg.email))
              ELSE raised(ret')
        /\ user' # undefined
           => /\ Len(user'.name) >= 2
              /\ wellFormedEmail(user'.email)
              /\ isLowerCase(user'.email) ]_vars

\* new User(" Al ", " A@B.C ") made the user "Al" with the email "a@b.c"
C15_Witness ==
    /\ ret.op = "new User"
    /\ ret.arg = [name |-> <<32, 65, 108, 32>>, email |-> <<32, 65, 64, 66, 46, 67, 32>>]
    /\ user # undefined
    /\ user.name = <<65, 108>>
    /\ user.email = <<97, 64, 98, 46, 99>>

\* setEmail("a @b.c") on an existing user raised an error
C15_WitnessRejected ==
    /\ ret.op = "setEmail"
    /\ ret.arg = <<97, 32, 64, 98, 46, 99>>
    /\ raised(ret)
    /\ user # undefined

\* the titles in a list
titlesIn(list) == { list[i] : i \in 1..Len(list) }

\* no title is in the list twice
noTitleTwice(list) == \A i \in 1..Len(list), j \in 1..Len(list) : list[i] = list[j] => i = j

\* C16: the borrowed list never holds a title twice; borrowBook(t) appends t
\* when t is not yet borrowed and leaves the list unchanged when it is;
\* getBorrowedBooksCount() is the number of distinct titles borrowed and not
\* yet returned, and hasBorrowed(t) is true exactly for those titles.
C16_BorrowedWithoutDuplicates ==
    [][ /\ user' # undefined => noTitleTwice(user'.borrowedBooks)
        /\ ret'.op = "borrowBook"
           => /\ user'.borrowedBooks = IF ret'.arg \in titlesIn(user.borrowedBooks)
                                        THEN user.borrowedBooks
                                        ELSE user.borrowedBooks \o <<ret'.arg>>
              /\ user'.name = user.name
              /\ user'.email = user.email
        /\ ret'.op = "getBorrowedBooksCount" => ret'.val = Cardinality(outstanding')
        /\ ret'.op = "hasBorrowed" => ret'.val = (ret'.arg \in outstanding') ]_vars

\* "Dune" was borrowed a second time while two titles were out
C16_Witness ==
    /\ ret.op = "borrowBook"
    /\ ret.arg = Dune
    /\ ret.log = "has already borrowed"
    /\ Len(user.borrowedBooks) = 2

\* getBorrowedBooksCount() answered 2 after a title was borrowed twice and another returned
C16_WitnessCount ==
    /\ ret.op = "getBorrowedBooksCount"
    /\ ret.val = 2
    /\ outstanding = {Dune, TheGreatGatsby}

\* C17: returnBook(t) removes t from the borrowed list and keeps the order of
\* the other titles when t is borrowed, after which hasBorrowed(t) is false
\* and borrowBook(t) borrows it again; when t is not borrowed it raises no
\* error and leaves the list unchanged.
C17_ReturnBook ==
    [][ /\ ret'.op = "returnBook"
           => /\ ~raised(ret')
              /\ IF ret'.arg \in titlesIn(user.borrowedBooks)
                 THEN /\ \E k \in 1..Len(user.borrowedBooks) :
                            /\ user.borrowedBooks[k] = ret'.arg
                            /\ user'.borrowedBooks = without(user.borrowedBooks, k)
                      /\ ret'.arg \notin titlesIn(user'.borrowedBooks)
                 ELSE user'.borrowedBooks = user.borrowedBooks
        /\ (ret.op = "returnBook" /\ ret'.op = "hasBorrowed" /\ ret'.arg = ret.arg)
           => ret'.val = FALSE
        /\ (ret.op = "returnBook" /\ ret'.op = "borrowBook" /\ ret'.arg = ret.arg)
           => user'.borrowedBooks = user.borrowedBooks \o <<ret'.arg>> ]_vars

\* "1984" was returned from between "The Great Gatsby" and "Dune"
C17_Witness ==
    /\ ret.op = "returnBook"
    /\ ret.arg = NineteenEightyFour
    /\ ret.log = "has returned"
    /\ user.borrowedBooks = <<TheGreatGatsby, Dune>>

\* a title that is not borrowed was returned
C17_WitnessAbsent ==
    /\ ret.op = "returnBook"
    /\ ret.log = "has not borrowed"
    /\ Len(user.borrowedBooks) = 1

heldMutations == {"held.push", "held.pop", "held.reverse", "held.set"}

\* C18 as stated: getAllBooks() of the earlier LibraryCatalogue class hands
\* out the catalogue's internal array, so the array a caller mutates is the
\* catalogue's and the mutation shows in getBookCount() and getAllBooks().
C18_ReturnsInternalArray ==
    [][ /\ ret'.op = "simple.getAllBooks" => held' = basics[ret'.this]
        /\ ret'.op \in heldMutations
           => \E k \in 1..Len(basics) : held = basics[k] /\ arrays'[basics[k]] = arrays'[held] ]_vars

\* C18, amended: getAllBooks() of the earlier LibraryCatalogue class returns
\* a copy with the same Books in the same order, as getAllItems() of the
\* singleton does; no mutation of the returned array changes a catalogue's
\* array, hence neither what getBookCount() nor what getAllBooks() returns
\* afterwards: the catalogues hold as many Books as were added.
C18_GetAllBooksIsACopy ==
    [][ /\ ret'.op = "simple.getAllBooks"
           => /\ ret'.val = arrays[basics[ret'.this]]
              /\ arrays'[held'] = arrays[basics[ret'.this]]
              /\ held' \notin { basics[k] : k \in 1..Len(basics) }
              /\ arrays'[basics'[ret'.this]] = arrays[basics[ret'.this]]
        /\ ret'.op \in heldMutations
           => /\ \A k \in 1..Len(basics) : arrays'[basics'[k]] = arrays[basics[k]]
              /\ basics' = basics
        /\ ret'.op = "simple.getBookCount" => ret'.val = Len(arrays'[basics'[ret'.this]])
        /\ sumOfValues([k \in 1..Len(basics') |-> Len(arrays'[basics'[k]])]) = nAdd' ]_vars

\* the array getAllBooks() returned was mutated twice and now differs from
\* the catalogue, which still holds its two Books
C18_Witness ==
    /\ ret.op \in heldMutations
    /\ nMutations = 2
    /\ basics # <<>>
    /\ Len(arrays[basics[1]]) = 2
    /\ held # 0
    /\ Len(arrays[held]) = 3
    /\ arrays[held][1] # arrays[basics[1]][1]

\* getBookCount() was asked right after a mutation of the returned array
C18_WitnessCount ==
    /\ ret.op = "simple.getBookCount"
    /\ nMutations = 2
    /\ ret.val = 2
    /\ held # 0
    /\ Len(arrays[held]) = 0

\* C19: no catalogue exists before the first getInstance() call; that call
\* constructs it empty (getItemCount() = 0 and getStatistics() =
\* {total: 0, byType: {}} until an item is added); a later getInstance()
\* call neither re-creates nor empties it: the contents after the call are
\* the contents before it.
C19_LazyAndNeverReset ==
    [][ /\ instance = 0 => cats = <<>> /\ allocated = {}
        /\ ret'.op # "getInstance" => instance' = instance /\ cats' = cats
        /\ (ret'.op = "getInstance" /\ instance = 0)
           => /\ instance' # 0
              /\ ret'.val = instance'
              /\ Len(cats') = 1
              /\ arrays'[cats'[instance']] = <<>>
        /\ (ret'.op = "getInstance" /\ instance # 0)
           => /\ instance' = instance
              /\ cats' = cats
              /\ arrays'[cats'[instance']] = arrays[cats[instance]]
        /\ (ret'.op = "getItemCount" /\ nAdd = 0) => ret'.val = 0
        /\ (ret'.op = "getStatistics" /\ nAdd = 0)
           => ret'.val.total = 0 /\ DOMAIN ret'.val.byType = {} ]_vars

\* getInstance() was called again on a catalogue that holds two items
C19_Witness ==
    /\ ret.op = "getInstance"
    /\ instance # 0
    /\ nAdd = 3
    /\ nRemoved = 1
    /\ Len(arrays[cats[instance]]) = 2

\* getStatistics() of the catalogue before any item was added
C19_WitnessEmpty ==
    /\ ret.op = "getStatistics"
    /\ nAdd = 0
    /\ ret.val.total = 0

\* a deprecated method and its replacement
replacementOf(op) ==
    CASE op = "addBook" -> "addItem"
      [] op = "getBookCount" -> "getItemCount"
      [] op = "findBookByTitle" -> "findItemByTitle"
      [] op = "getAllBooks" -> "getAllItems"
      [] OTHER -> "none"

queries == {"getItemCount", "getBookCount", "findItemByTitle", "findBookByTitle", "getAllItems", "getAllBooks"}

\* C20: each deprecated method of the singleton catalogue behaves as its
\* replacement: addBook(b) appends b as addItem(b) does; getBookCount(),
\* findBookByTitle(t) and getAllBooks(), called in the catalogue state in
\* which getItemCount(), findItemByTitle(t) and getAllItems() were called
\* (and the other way round), return what those returned: the number of all
\* items, the first item with that title whatever its type, and a copy of
\* all items.
C20_DeprecatedAsReplacement ==
    [][ /\ ret'.op \in {"addBook", "addItem"}
           => /\ arrays'[cats'[ret'.this]] = arrays[cats[ret'.this]] \o <<ret'.arg>>
              /\ ret'.val = undefined
              /\ cats' = cats /\ instance' = instance
        /\ ret'.op \in queries
           => /\ arrays'[cats'[ret'.this]] = arrays[cats[ret'.this]]
              /\ cats' = cats /\ instance' = instance
        /\ ( /\ ret.op \in queries /\ ret'.op \in queries
             /\ replacementOf(ret'.op) = ret.op \/ replacementOf(ret.op) = ret'.op
             /\ ret'.arg = ret.arg )
           => ret'.val = ret.val
        /\ ret'.op = "getBookCount" => ret'.val = Len(arrays[cats[ret'.this]])
        /\ ret'.op = "getAllBooks"
           => /\ ret'.val = arrays[cats[ret'.this]]
              /\ arrays'[held'] = ret'.val
              /\ held' # cats[ret'.this] ]_vars

\* findBookByTitle("Du") returned the AudioBook "du", the first item of that title
C20_Witness ==
    /\ ret.op = "findBookByTitle"
    /\ ret.arg = <<68, 117>>
    /\ "ctor" \in DOMAIN ret.val
    /\ ret.val.ctor = "AudioBook"
    /\ Len(arrays[cats[instance]]) = 2

\* getAllBooks() returned an AudioBook and a Book that addBook added
C20_WitnessAllItems ==
    /\ ret.op = "getAllBooks"
    /\ Len(ret.val) = 2
    /\ ret.val[1].ctor = "AudioBook"
    /\ ret.val[2] = Book(2, <<100, 117>>, Fitzgerald, Isbn978)

\* the catalogue's content in the state before and after a step
contentBefore == IF instance = 0 THEN <<>> ELSE arrays[cats[instance]]
contentAfter == IF instance' = 0 THEN <<>> ELSE arrays'[cats'[instance']]

\* C21: with k entries of id i in the catalogue, removeItem(i) returns true
\* as long as k > 0 and then removes one entry of id i, the earliest one,
\* leaving every other entry in place; it returns false and removes nothing
\* when k = 0; and only addItem makes k grow.  So without an addItem in
\* between, repeated removeItem(i) calls return true exactly k times and
\* false on every call after that.
C21_RemoveRepeatedly ==
    [][ /\ ret'.op = "removeItem"
           => LET k == Cardinality(positionsOfId(contentBefore, ret'.arg))
                  kAfter == Cardinality(positionsOfId(contentAfter, ret'.arg))
              IN  /\ ret'.val = (k > 0)
                  /\ kAfter = IF k > 0 THEN k - 1 ELSE 0
                  /\ k > 0 => contentAfter = without(contentBefore, least(positionsOfId(contentBefore, ret'.arg)))
                  /\ k = 0 => contentAfter = contentBefore
                  /\ (ret.op = "removeItem" /\ ret.arg = ret'.arg /\ ret.val = FALSE) => ret'.val = FALSE
        /\ ret'.op # "addItem"
           => \A id \in QueryIds :
                 Cardinality(positionsOfId(contentAfter, id)) <= Cardinality(positionsOfId(contentBefore, id)) ]_vars

\* removeItem(1) returned true and an entry of id 1 is still left: the
\* catalogue held more than one entry of id 1 when it was called
C21_Witness ==
    /\ ret.op = "removeItem"
    /\ ret.arg = 1
    /\ ret.val = TRUE
    /\ nAdd = 3
    /\ nRemoved = 2
    /\ Len(arrays[cats[instance]]) = 1
    /\ positionsOfId(arrays[cats[instance]], 1) = {1}

\* removeItem(1) returned false: after two removals no entry of id 1 is
\* left, and the entry of id 2 is still there
C21_WitnessExhausted ==
    /\ ret.op = "removeItem"
    /\ ret.arg = 1
    /\ ret.val = FALSE
    /\ nAdd = 3
    /\ nRemoved = 2
    /\ Len(arrays[cats[instance]]) = 1
    /\ arrays[cats[instance]][1].id = 2

\* a sequence without its last element
front(seq) == SubSeq(seq, 1, Len(seq) - 1)

\* removeItem(x.getId()) is called right after addItem(x)
removeRightAfterAdd == ret.op = "addItem" /\ ret'.op = "removeItem" /\ ret'.arg = ret.arg.id

\* C22 as stated: addItem(x) followed immediately by removeItem(x.getId())
\* restores the catalogue sequence exactly when no entry already in the
\* catalogue had that id; when an earlier entry has the id, that entry is
\* removed and x remains at the end.
C22_RestoresExactlyWhenIdIsNew ==
    [][ removeRightAfterAdd
        => LET pre == front(contentBefore)
               earlier == positionsOfId(pre, ret.arg.id)
           IN  /\ (contentAfter = pre) <=> (earlier = {})
               /\ earlier # {} => contentAfter = without(pre, least(earlier)) \o <<ret.arg>> ]_vars

\* C22, amended: addItem(x) followed immediately by removeItem(x.getId())
\* restores the catalogue sequence when no entry already in the catalogue
\* had that id; when an earlier entry has the id, the earliest such entry is
\* removed and x remains at the end, and the sequence is then the original
\* one only if every entry from that earliest entry on is x itself (x was
\* added again).
C22_AddThenRemove ==
    [][ removeRightAfterAdd
        => LET pre == front(contentBefore)
               earlier == positionsOfId(pre, ret.arg.id)
           IN  /\ contentBefore = pre \o <<ret.arg>>
               /\ ret'.val = TRUE
               /\ earlier = {} => contentAfter = pre
               /\ earlier # {} => contentAfter = without(pre, least(earlier)) \o <<ret.arg>>
               /\ (contentAfter = pre)
                  <=> \/ earlier = {}
                      \/ \A i \in least(earlier)..Len(pre) : pre[i] = ret.arg ]_vars

\* two items of id 1 were added and the one removeItem(1) call removed the
\* first: the item added last is what is left
C22_Witness ==
    /\ ret.op = "removeItem"
    /\ ret.arg = 1
    /\ ret.val = TRUE
    /\ nAdd = 2
    /\ nRemoved = 1
    /\ arrays[cats[instance]] = <<AudioBook(1, <<100, 117>>, Pike, 540)>>

\* after three adds and one removal the catalogue holds the same item twice
C22_WitnessSameItem ==
    /\ ret.op = "removeItem"
    /\ ret.val = TRUE
    /\ nAdd = 3
    /\ nRemoved = 1
    /\ Len(arrays[cats[instance]]) = 2
    /\ arrays[cats[instance]][1] = arrays[cats[instance]][2]

queryOperations == {"getItemCount", "findItemByTitle", "findItemsByType", "getAllItems", "getStatistics"}

\* C23: getItemCount, findItemByTitle, findItemsByType, getAllItems and
\* getStatistics leave the catalogue as it was: the same object with the
\* same sequence of items; and the same query called twice in a row with the
\* same argument returns equal results.
C23_QueriesChangeNothing ==
    [][ ret'.op \in queryOperations
        => /\ instance' = instance
           /\ cats' = cats
           /\ contentAfter = contentBefore
           /\ <<nAdd', nRemoved'>> = <<nAdd, nRemoved>>
           /\ (ret.op = ret'.op /\ ret.arg = ret'.arg) => ret'.val = ret.val ]_vars

\* findItemsByType("Book") returned one of the two items of the catalogue,
\* which still holds both
C23_Witness ==
    /\ ret.op = "findItemsByType"
    /\ ret.arg = "Book"
    /\ Len(ret.val) = 1
    /\ Len(arrays[cats[instance]]) = 2
    /\ nRemoved = 0

\* getAllItems() was called while the caller held the array of an earlier call
C23_WitnessAllItems ==
    /\ ret.op = "getAllItems"
    /\ Len(ret.val) = 3
    /\ held # 0
    /\ held # cats[instance]
    /\ Cardinality(allocated) = 2

\* the field a setter of Book or AudioBook is for
ownField(op) ==
    CASE op = "setAuthor" -> "author"
      [] op = "setISBN" -> "ISBN"
      [] op = "setNarrator" -> "narrator"
      [] op = "setLength" -> "length"

\* the value a setter of Book or AudioBook must reject, and the value it stores otherwise
invalidFor(op, value) == IF op = "setLength" THEN value <= 0 ELSE inked(value) = {}
storedFor(op, value) == IF op = "setLength" THEN value ELSE stripped(value)

\* C24: a rejected setter call raises an error and leaves every field of
\* the object as it was (for a User also the borrowed list): setAuthor,
\* setISBN and setNarrator with an empty or white-space-only string,
\* setLength with a value <= 0, setName and setEmail with an invalid value.
\* An accepted setter call changes its own field only.
C24_RejectedSetterChangesNothing ==
    [][ /\ ret'.op \in {"setAuthor", "setISBN", "setNarrator", "setLength"}
           => /\ user' = user
              /\ Len(objs') = Len(objs)
              /\ \A p \in 1..Len(objs) : p # ret'.this => objs'[p] = objs[p]
              /\ IF invalidFor(ret'.op, ret'.arg)
                 THEN raised(ret') /\ objs'[ret'.this] = objs[ret'.this]
                 ELSE /\ ~raised(ret')
                      /\ \A f \in DOMAIN objs[ret'.this] :
                            objs'[ret'.this][f] = IF f = ownField(ret'.op)
                                                  THEN storedFor(ret'.op, ret'.arg)
                                                  ELSE objs[ret'.this][f]
        /\ ret'.op = "setName"
           => /\ objs' = objs
              /\ IF acceptableName(ret'.arg)
                 THEN /\ ~raised(ret')
                      /\ user'.email = user.email
                      /\ user'.borrowedBooks = user.borrowedBooks
                 ELSE raised(ret') /\ user' = user
        /\ ret'.op = "setEmail"
           => /\ objs' = objs
              /\ IF acceptableEmail(ret'.arg)
                 THEN /\ ~raised(ret')
                      /\ user'.name = user.name
                      /\ user'.borrowedBooks = user.borrowedBooks
                 ELSE raised(ret') /\ user' = user ]_vars

\* setNarrator(" ") was rejected on an AudioBook whose narrator and length
\* had been set before
C24_Witness ==
    /\ ret.op = "setNarrator"
    /\ ret.arg = <<32>>
    /\ raised(ret)
    /\ objs[ret.this].narrator = Orwell
    /\ objs[ret.this].length = 60

\* setEmail("ab") was rejected on a user who has borrowed a title
C24_WitnessUser ==
    /\ ret.op = "setEmail"
    /\ ret.arg = <<97, 98>>
    /\ raised(ret)
    /\ user # undefined
    /\ user.borrowedBooks = <<Dune>>
    /\ user.email = <<120, 64, 121, 46, 122>>

\* setISBN("978") was accepted on a Book whose author had been changed
C24_WitnessAccepted ==
    /\ ret.op = "setISBN"
    /\ ~raised(ret)
    /\ objs[ret.this].author = Pike
    /\ objs[ret.this].ISBN = Isbn978

====
